---- MODULE Spec2Model ----
(***************************************************************************)
(* Escrow booking lifecycle of rentmenaija: the Booking and LeasePayment   *)
(* tables of the transactions app, the HotelBooking table of the hotels    *)
(* app, the request handlers of transactions/views.py and the Squad        *)
(* webhook of payments/views.py.  Every handler is one atomic action: the  *)
(* requests are served one at a time.                                      *)
(***************************************************************************)
EXTENDS Integers, Sequences, FiniteSets, TLC

(***************************************************************************)
(* Bounds of the model.                                                    *)
(***************************************************************************)
MaxBookings == 2
MaxPayments == 2
MaxHotelBookings == 1
MaxDisburse == 2
MaxRequests == 2

(***************************************************************************)
(* Nullable columns: None is the empty tuple, a value v is <<v>>.          *)
(* Nullable strings use the string "None".                                 *)
(***************************************************************************)
None == <<>>
Some(v) == <<v>>
NoneStr == "None"


(***************************************************************************)
(* Time, in seconds.  The clock jumps between the instants that separate   *)
(* the two windows' cases.                                                 *)
(***************************************************************************)
CancellationWindow == 24 * 3600
ConfirmationWindow == 48 * 3600
\* the start, and an instant after both windows have closed for what
\* happened at the start
CoarseTimePoints == {0, ConfirmationWindow + 1}

\* both sides of the end of each window, to the second
FineTimePoints ==
    {0, CancellationWindow, CancellationWindow + 1,
     ConfirmationWindow - 1, ConfirmationWindow, ConfirmationWindow + 1}

(***************************************************************************)
(* The listing store: the tables of the listings, agent_listings and       *)
(* hotels apps.  The handlers modelled here only read them; their content  *)
(* is fixed when a behaviour starts.                                       *)
(***************************************************************************)
PropertyDraftRow(owner, rent, term) ==
    [user |-> owner, monthly_rent |-> rent, lease_term_preference |-> term]

AgentPropertyDraftRow(agent, rent, term) ==
    [agent |-> agent, monthly_rent |-> rent, lease_term_preference |-> term]

\* a row of Property or AgentProperty after approve()
Published(draft, bank, account, verified) ==
    [draft |-> draft, status |-> "approved", owner_bank_name |-> bank,
     owner_account_number |-> account,
     owner_account_name |-> IF account = "None" THEN "None" ELSE "Owner",
     bank_verified |-> verified]

\* the row the submission of a draft creates: status pending, the bank
\* details not yet copied from the draft
Submitted(draft) ==
    [Published(draft, "None", "None", FALSE) EXCEPT !.status = "pending"]

EmptyStore ==
    [Property |-> <<>>, PropertyDraft |-> <<>>, AgentProperty |-> <<>>,
     AgentPropertyDraft |-> <<>>, HotelListing |-> <<>>, RoomType |-> <<>>]

\* a landlord listing, published, bank details verified and known to the gateway
LandlordStore(rent, term) ==
    [EmptyStore EXCEPT
        !.PropertyDraft = (1 :> PropertyDraftRow("owner", rent, term)),
        !.Property = (1 :> Published(1, "GTBank ", "0123456789", TRUE))]

\* the landlord listing with bank details that are not verified
UnverifiedStore ==
    [LandlordStore(50000, "1_year") EXCEPT
        !.Property = (1 :> Published(1, "GTBank ", "0123456789", FALSE))]

\* a landlord listing submitted for review and not yet approved
PendingStore ==
    [EmptyStore EXCEPT
        !.PropertyDraft = (1 :> PropertyDraftRow("owner", 50000, "1_year")),
        !.Property = (1 :> Submitted(1))]

\* a landlord draft that was never published: no Property row has its id
DraftOnlyStore ==
    [EmptyStore EXCEPT !.PropertyDraft = (2 :> PropertyDraftRow("owner", 50000, "6_months"))]

\* an agent listing, published, bank details unverified, bank unknown to the gateway
AgentStore ==
    [EmptyStore EXCEPT
        !.AgentPropertyDraft = (1 :> AgentPropertyDraftRow("owner", 50000, "None")),
        !.AgentProperty = (1 :> Published(1, "Village Bank", "0123456789", FALSE))]

\* a hotel with one room type
HotelStore ==
    [EmptyStore EXCEPT
        !.HotelListing = (1 :> [owner |-> "owner", status |-> "approved"]),
        !.RoomType = (1 :> [hotel |-> 1, price_per_night |-> 20000])]

\* the hotel while its owner is still filling it in
HotelDraftStore ==
    [HotelStore EXCEPT !.HotelListing = (1 :> [owner |-> "owner", status |-> "draft"])]

\* the listing stores a behaviour can start with, by name
StoreOf(name) ==
    CASE name = "landlord" -> LandlordStore(50000, "1_year")
      [] name = "landlord_monthly" -> LandlordStore(50000, "monthly")
      [] name = "landlord_6_months" -> LandlordStore(50000, "6_months")
      [] name = "landlord_2_years" -> LandlordStore(50000, "2_years")
      [] name = "landlord_no_term" -> LandlordStore(50000, "None")
      [] name = "landlord_unverified" -> UnverifiedStore
      [] name = "draft_only" -> DraftOnlyStore
      [] name = "agent" -> AgentStore
      [] name = "hotel" -> HotelStore
      [] name = "landlord_pending" -> PendingStore
      [] name = "hotel_draft" -> HotelDraftStore
      [] OTHER -> EmptyStore

Stores == {"landlord", "draft_only", "agent", "hotel"}

BANK_CODE_MAPPING == ("gtbank" :> "000013")

\* str.lower().strip() on the bank names of the listing store
LowerStrip(s) ==
    CASE s = "GTBank " -> "gtbank"
      [] s = "Village Bank" -> "village bank"
      [] OTHER -> s

(***************************************************************************)
(* Date strings of the requests and datetime.strptime(s, '%Y-%m-%d'):      *)
(* the day number of a well-formed date, -1 for a ValueError.              *)
(***************************************************************************)
strptime(s) ==
    CASE s = "2024-01-01" -> 1
      [] s = "2024-01-04" -> 4
      [] OTHER -> 0 - 1

VARIABLES
    bookings,        \* table transactions_booking: row i has id i
    payments,        \* table transactions_leasepayment: row i has id i
    hotelBookings,   \* table hotels_hotelbooking: row i has id i
    disbursed,       \* transfers the gateway has made, per booking id
    squadConfigured, \* settings.SQUAD_* are all set
    store,           \* the name of the listing store
    listings,        \* the tables of the listing store
    inflight,        \* the requests being served: what each has read so far
    now,             \* timezone.now()
    last             \* the last request served and its response

vars == <<bookings, payments, hotelBookings, disbursed,
          squadConfigured, store, listings, inflight, now, last>>

tables == <<bookings, payments, hotelBookings>>

\* settings and the listing store never change
config == <<squadConfigured, store, listings>>

Property == listings.Property
PropertyDraft == listings.PropertyDraft
AgentProperty == listings.AgentProperty
AgentPropertyDraft == listings.AgentPropertyDraft
HotelListing == listings.HotelListing
RoomType == listings.RoomType


(***************************************************************************)
(* Requests and responses.  last is the request just served, with the      *)
(* response in out (and warning for confirm_booking's 200 with a warning); *)
(* it is cleared when time passes.                                         *)
(***************************************************************************)
NoRef == <<"", 0>>

NoReq ==
    [op |-> "none", user |-> "none", listing_type |-> "", listing_id |-> 0,
     payment_type |-> "", check_in_date |-> "", check_out_date |-> "",
     room_type_id |-> 0, booking_id |-> 0, ref |-> NoRef, method |-> "",
     event |-> "", transaction_status |-> "", gateway |-> "none",
     valid_json |-> TRUE, shape |-> "object", out |-> "none", warning |-> "none"]

VALID_LISTING_TYPES == {"landlord_listing", "agent_listing", "hotel_listing"}

VALID_PAYMENT_TYPES ==
    {"security_deposit", "first_month_rent", "last_month_rent", "booking_fee",
     "full_lease_payment"}

\* the mapping with the terms of a year and more counted in years
lease_term_to_years ==
    ("monthly" :> 1) @@ ("6_months" :> 6) @@ ("1_year" :> 1) @@ ("2_years" :> 2)

lease_term_to_months ==
    ("monthly" :> 1) @@ ("6_months" :> 6) @@ ("1_year" :> 12) @@ ("2_years" :> 24)

BOOKING_FEE == 10000

(***************************************************************************)
(* Rows.                                                                   *)
(***************************************************************************)
Booking(u, lt, lid, st, amount, pt, ci, co, lp) ==
    [user |-> u, listing_type |-> lt, listing_id |-> lid,
     initial_amount_paid_ngn |-> amount, payment_type |-> pt, status |-> st,
     refund_status |-> "none", release_status |-> "pending",
     refund_processed_at |-> None, released_at |-> None,
     payout_reference |-> None, funds_released |-> FALSE,
     check_in_date |-> ci, check_out_date |-> co, lease_payment |-> lp,
     created_at |-> now, updated_at |-> now]

LeasePayment(lt, lid, tenant, payee, amount, pt, ref) ==
    [listing_type |-> lt, listing_id |-> lid, tenant |-> tenant,
     landlord_or_agent |-> payee, amount_paid_ngn |-> amount,
     payment_type |-> pt, status |-> "pending", transaction_ref |-> ref,
     updated_at |-> now, deleted |-> FALSE]

HotelBooking(u, room, amount, ref) ==
    [user |-> u, room |-> room, amount_paid_ngn |-> amount, status |-> "pending",
     transaction_ref |-> ref, updated_at |-> now, deleted |-> FALSE]

BookingIds == 1..Len(bookings)

\* Booking.objects.filter(user=, listing_type=, listing_id=, status__in=)
BookingsWith(u, lt, lid, statuses) ==
    {i \in BookingIds :
        /\ bookings[i].user = u
        /\ bookings[i].listing_type = lt
        /\ bookings[i].listing_id = lid
        /\ bookings[i].status \in statuses}

\* LeasePayment.objects.get(transaction_ref=) / HotelBooking.objects.get(transaction_ref=)
LeasePaymentsByRef(ref) ==
    {i \in 1..Len(payments) : ~payments[i].deleted /\ payments[i].transaction_ref = ref}

HotelBookingsByRef(ref) ==
    {i \in 1..Len(hotelBookings) :
        ~hotelBookings[i].deleted /\ hotelBookings[i].transaction_ref = ref}

\* the bookings of the tenant and listing of payment p, linked to it or not
BookingOfPayment_by_listing(p) ==
    {i \in BookingIds :
        /\ bookings[i].user = payments[p].tenant
        /\ bookings[i].listing_type = payments[p].listing_type
        /\ bookings[i].listing_id = payments[p].listing_id}

\* the reverse side of Booking.lease_payment (related_name='booking')
BookingOfPayment(p) == {i \in BookingIds : bookings[i].lease_payment = Some(p)}

(***************************************************************************)
(* Booking's methods and properties.                                       *)
(***************************************************************************)
\* is_in_cancellation_window without the test of the time
is_in_cancellation_window_any_time(b) == b.created_at <= now

\* is_in_cancellation_window with the end of the window excluded
is_in_cancellation_window_strict(b) == now - b.created_at < CancellationWindow

is_in_cancellation_window(b) == now - b.created_at <= CancellationWindow

\* is_in_confirmation_window without the test of the time
is_in_confirmation_window_any_time(b) == b.status = "paid_pending_confirmation"

\* is_in_confirmation_window with the end of the window excluded
is_in_confirmation_window_strict(b) ==
    b.status = "paid_pending_confirmation" /\ now - b.updated_at < ConfirmationWindow

is_in_confirmation_window(b) ==
    IF b.status # "paid_pending_confirmation" THEN FALSE
    ELSE now - b.updated_at <= ConfirmationWindow

\* None when the published listing is absent, else <<the listing row>>
get_related_published_listing(b) ==
    CASE b.listing_type = "landlord_listing" ->
            IF b.listing_id \in DOMAIN Property THEN Some(Property[b.listing_id]) ELSE None
      [] b.listing_type = "agent_listing" ->
            IF b.listing_id \in DOMAIN AgentProperty
            THEN Some(AgentProperty[b.listing_id]) ELSE None
      [] b.listing_type = "hotel_listing" ->
            IF b.listing_id \in DOMAIN HotelListing
            THEN Some(HotelListing[b.listing_id]) ELSE None
      [] OTHER -> None

\* getattr(listing, name, default)
GetAttr(listing, name, default) ==
    IF name \in DOMAIN listing THEN listing[name] ELSE default

get_landlord_account_details(b) ==
    LET listing == get_related_published_listing(b)
    IN  IF listing # None
        THEN Some([bank_name |-> GetAttr(listing[1], "owner_bank_name", NoneStr),
                   account_number |-> GetAttr(listing[1], "owner_account_number", NoneStr),
                   account_name |-> GetAttr(listing[1], "owner_account_name", NoneStr),
                   bank_verified |-> GetAttr(listing[1], "bank_verified", FALSE)])
        ELSE None

\* truth value of a nullable string
Truthy(s) == s # NoneStr /\ s # ""

\* can_release_funds without the test of the status
can_release_funds_any_status(b) ==
    IF \/ b.initial_amount_paid_ngn = None
       \/ b.initial_amount_paid_ngn[1] <= 0
       \/ b.funds_released
    THEN FALSE
    ELSE LET account_details == get_landlord_account_details(b)
         IN  account_details # None /\ account_details[1].bank_verified

\* can_release_funds without the test of funds_released
can_release_funds_again(b) ==
    IF b.status # "confirmed" \/ b.initial_amount_paid_ngn[1] <= 0
    THEN FALSE
    ELSE LET account_details == get_landlord_account_details(b)
         IN  account_details # None /\ account_details[1].bank_verified

can_release_funds(b) ==
    IF \/ b.status # "confirmed"
       \/ b.initial_amount_paid_ngn[1] <= 0
       \/ b.funds_released
    THEN FALSE
    ELSE LET account_details == get_landlord_account_details(b)
         IN  IF account_details = None THEN FALSE
             ELSE /\ Truthy(account_details[1].bank_name)
                  /\ Truthy(account_details[1].account_number)
                  /\ Truthy(account_details[1].account_name)
                  /\ account_details[1].bank_verified

\* the row after mark_funds_released's save(update_fields=[...]): updated_at
\* is not among the fields written
mark_funds_released(b, payout_reference) ==
    [b EXCEPT !.funds_released = TRUE,
              !.release_status = "released",
              !.released_at = Some(now),
              !.payout_reference = IF payout_reference # None
                                   THEN payout_reference ELSE @]

\* the row after a full save(): auto_now stamps updated_at
Save(b) == [b EXCEPT !.updated_at = now]


(***************************************************************************)
(* save_booking                                                            *)
(***************************************************************************)
PublishedExists(lt, lid) ==
    CASE lt = "landlord_listing" -> lid \in DOMAIN Property
      [] lt = "agent_listing" -> lid \in DOMAIN AgentProperty
      [] lt = "hotel_listing" -> lid \in DOMAIN HotelListing
      [] OTHER -> FALSE

\* the answer when the listing row is absent.  The except clause names
\* HotelListing.DoesNotExist, and HotelListing is a local name of the view,
\* bound by the import in the hotel branch alone: for the other listing types
\* evaluating the clause raises UnboundLocalError, which nothing catches
MissingListingOutcome(lt) ==
    IF lt = "hotel_listing" THEN "ListingNotFound" ELSE "ServerError"

\* SaveOutcome with the duplicate lookup on the status 'saved' alone
SaveOutcome_saved_only(u, lt, lid) ==
    CASE lt = "" \/ lid = 0 -> "ValidationError"
      [] lt \notin VALID_LISTING_TYPES -> "InvalidListingType"
      [] ~PublishedExists(lt, lid) -> MissingListingOutcome(lt)
      [] BookingsWith(u, lt, lid, {"saved"}) # {} -> "DuplicateBooking"
      [] OTHER -> "ok"

SaveOutcome(u, lt, lid) ==
    CASE lt = "" \/ lid = 0 -> "ValidationError"
      [] lt \notin VALID_LISTING_TYPES -> "InvalidListingType"
      [] ~PublishedExists(lt, lid) -> MissingListingOutcome(lt)
      [] BookingsWith(u, lt, lid, {"saved", "paid_pending_confirmation"}) # {} ->
            "DuplicateBooking"
      [] OTHER -> "ok"

save_booking(u, lt, lid, ci, co) ==
    LET out == SaveOutcome(u, lt, lid)
        hotel == lt = "hotel_listing"
        row == Booking(u, lt, lid, "saved", None, NoneStr,
                       IF hotel /\ ci # "" THEN ci ELSE NoneStr,
                       IF hotel /\ co # "" THEN co ELSE NoneStr, None)
    IN  /\ out = "ok" => Len(bookings) < MaxBookings
        /\ bookings' = IF out = "ok" THEN Append(bookings, row) ELSE bookings
        /\ last' = [NoReq EXCEPT !.op = "save_booking", !.user = u,
                                 !.listing_type = lt, !.listing_id = lid,
                                 !.check_in_date = ci, !.check_out_date = co,
                                 !.booking_id = IF out = "ok" THEN Len(bookings) + 1 ELSE 0,
                                 !.out = out]
        /\ UNCHANGED <<payments, hotelBookings, disbursed,
                       config, inflight, now>>

(***************************************************************************)
(* initiate_lease_payment                                                  *)
(***************************************************************************)
\* listing_obj_for_calculation: None when neither the published listing nor
\* the draft of that id exists
ListingForCalculation(lt, lid) ==
    CASE lt = "landlord_listing" ->
            IF lid \in DOMAIN Property THEN Some(PropertyDraft[Property[lid].draft])
            ELSE IF lid \in DOMAIN PropertyDraft THEN Some(PropertyDraft[lid])
            ELSE None
      [] lt = "agent_listing" ->
            IF lid \in DOMAIN AgentProperty
            THEN Some(AgentPropertyDraft[AgentProperty[lid].draft])
            ELSE IF lid \in DOMAIN AgentPropertyDraft THEN Some(AgentPropertyDraft[lid])
            ELSE None
      [] lt = "hotel_listing" ->
            IF lid \in DOMAIN HotelListing THEN Some(HotelListing[lid]) ELSE None
      [] OTHER -> None

Amount(err, amount) == [err |-> err, amount |-> amount]

\* the amount by payment type; an attribute the listing row lacks raises
\* AttributeError, which no except clause of the view catches
AmountByPaymentType(calc, pt) ==
    CASE pt \in {"security_deposit", "first_month_rent"} ->
            IF "monthly_rent" \in DOMAIN calc
            THEN Amount("ok", calc.monthly_rent) ELSE Amount("ServerError", 0)
      [] pt = "booking_fee" -> Amount("ok", BOOKING_FEE)
      [] pt = "full_lease_payment" ->
            IF "lease_term_preference" \notin DOMAIN calc \/ "monthly_rent" \notin DOMAIN calc
            THEN Amount("ServerError", 0)
            ELSE IF calc.lease_term_preference \notin DOMAIN lease_term_to_months
            THEN Amount("UnsupportedLeaseTerm", 0)
            ELSE Amount("ok", calc.monthly_rent * lease_term_to_months[calc.lease_term_preference])
      [] OTHER -> Amount("UnsupportedPaymentType", 0)

\* HotelAmount without the test that the check-out date is after the check-in
\* date
HotelAmount_any_range(lid, ci, co, room) ==
    IF ci = "" \/ co = "" \/ room = 0 THEN Amount("ValidationError", 0)
    ELSE IF strptime(ci) < 0 \/ strptime(co) < 0 THEN Amount("InvalidDateFormat", 0)
    ELSE IF ~(room \in DOMAIN RoomType /\ RoomType[room].hotel = lid)
    THEN Amount("RoomNotFound", 0)
    ELSE Amount("ok", RoomType[room].price_per_night * (strptime(co) - strptime(ci)))

\* the hotel branch: nightly rate of the room type times the nights
HotelAmount(lid, ci, co, room) ==
    IF ci = "" \/ co = "" \/ room = 0 THEN Amount("ValidationError", 0)
    ELSE IF strptime(ci) < 0 \/ strptime(co) < 0 THEN Amount("InvalidDateFormat", 0)
    ELSE IF strptime(co) <= strptime(ci) THEN Amount("InvalidDateRange", 0)
    ELSE IF ~(room \in DOMAIN RoomType /\ RoomType[room].hotel = lid)
    THEN Amount("RoomNotFound", 0)
    ELSE Amount("ok", RoomType[room].price_per_night * (strptime(co) - strptime(ci)))

\* everything initiate_lease_payment decides before it writes
CalculateAmount(req) ==
    LET lt == req.listing_type
        lid == req.listing_id
        pt == req.payment_type
        calc == ListingForCalculation(lt, lid)
    IN  CASE lt = "" \/ lid = 0 \/ pt = "" -> Amount("ValidationError", 0)
          [] lt \notin VALID_LISTING_TYPES -> Amount("InvalidListingType", 0)
          [] pt \notin VALID_PAYMENT_TYPES -> Amount("InvalidPaymentType", 0)
          [] calc = None -> Amount(MissingListingOutcome(lt), 0)
          [] AmountByPaymentType(calc[1], pt).err # "ok" -> AmountByPaymentType(calc[1], pt)
          [] lt = "hotel_listing" ->
                HotelAmount(lid, req.check_in_date, req.check_out_date, req.room_type_id)
          [] OTHER -> AmountByPaymentType(calc[1], pt)

\* the payee of the payment record
landlord_or_agent_user(lt, lid) ==
    CASE lt = "landlord_listing" ->
            IF lid \in DOMAIN Property THEN PropertyDraft[Property[lid].draft].user
            ELSE PropertyDraft[lid].user
      [] lt = "agent_listing" ->
            IF lid \in DOMAIN AgentProperty
            THEN AgentPropertyDraft[AgentProperty[lid].draft].agent
            ELSE AgentPropertyDraft[lid].agent
      [] OTHER -> HotelListing[lid].owner

ChargeOutcomes == {"success", "rejected", "network_error", "bad_response"}

\* the payment record left as it was created whatever the gateway answers
ChargeStatus_stays_pending(reached, gw) == "pending"

\* the status of the new payment record when the view returns: 'failed'
\* after a charge the gateway refused or that raised
ChargeStatus(reached, gw) ==
    IF reached /\ gw # "success" THEN "failed" ELSE "pending"

initiate_lease_payment(u, req, gw) ==
    LET lt == req.listing_type
        lid == req.listing_id
        pt == req.payment_type
        hotel == lt = "hotel_listing"
        calc == CalculateAmount(req)
        amount == calc.amount
        pid == Len(payments) + 1
        transaction_ref == <<"LEASEPAY", pid>>
        saved == BookingsWith(u, lt, lid, {"saved"})
        \* Booking.objects.create(room_type_id=...) raises TypeError: Booking
        \* has no such field
        createFails == saved = {} /\ hotel
        reachedGateway == calc.err = "ok" /\ ~createFails /\ squadConfigured
        deleted == calc.err = "ok" /\ ~createFails /\ ~squadConfigured
        out == CASE calc.err # "ok" -> calc.err
                 [] createFails -> "ServerError"
                 [] ~squadConfigured -> "GatewayMisconfigured"
                 [] gw = "success" -> "ok"
                 [] gw = "rejected" -> "GatewayRejected"
                 [] gw = "network_error" -> "GatewayUnavailable"
                 [] OTHER -> "ServerError"
        lease_payment ==
            [LeasePayment(lt, lid, u, landlord_or_agent_user(lt, lid), amount, pt,
                          transaction_ref)
                EXCEPT !.status = ChargeStatus(reachedGateway, gw),
                       !.deleted = deleted]
        \* on_delete=SET_NULL clears the link when the payment row is deleted
        link == IF deleted THEN None ELSE Some(pid)
        linked(b) ==
            Save([b EXCEPT !.lease_payment = link,
                           !.status = "paid_pending_confirmation",
                           !.initial_amount_paid_ngn = Some(amount),
                           !.payment_type = pt,
                           !.check_in_date = IF hotel THEN req.check_in_date ELSE @,
                           !.check_out_date = IF hotel THEN req.check_out_date ELSE @])
        created ==
            Booking(u, lt, lid, "paid_pending_confirmation", Some(amount), pt,
                    NoneStr, NoneStr, link)
    IN  /\ calc.err = "ok" => Len(payments) < MaxPayments
        /\ (calc.err = "ok" /\ saved = {} /\ ~hotel) => Len(bookings) < MaxBookings
        /\ gw # "success" => reachedGateway
        /\ payments' = IF calc.err = "ok" THEN Append(payments, lease_payment) ELSE payments
        /\ bookings' =
            IF calc.err # "ok" THEN bookings
            ELSE IF Cardinality(saved) = 1
            THEN LET i == CHOOSE i \in saved : TRUE
                 IN  [bookings EXCEPT ![i] = linked(bookings[i])]
            ELSE IF saved = {} /\ ~hotel THEN Append(bookings, created)
            ELSE bookings
        /\ last' = [NoReq EXCEPT !.op = "initiate_lease_payment", !.user = u,
                                 !.listing_type = lt, !.listing_id = lid,
                                 !.payment_type = pt,
                                 !.check_in_date = req.check_in_date,
                                 !.check_out_date = req.check_out_date,
                                 !.room_type_id = req.room_type_id,
                                 !.ref = IF calc.err = "ok" THEN transaction_ref ELSE NoRef,
                                 !.gateway = IF reachedGateway THEN gw ELSE "none",
                                 !.out = out]
        /\ UNCHANGED <<hotelBookings, disbursed, config, inflight, now>>


(***************************************************************************)
(* confirm_booking, cancel_booking, request_refund                         *)
(***************************************************************************)
\* Booking.objects.get(id=booking_id, user=request.user)
OwnedBooking(u, bid) == bid \in BookingIds /\ bookings[bid].user = u

BookingReq(op, u, bid) ==
    [NoReq EXCEPT !.op = op, !.user = u, !.booking_id = bid]

DisburseOutcomes == {"success", "rejected", "network_error"}

\* the reference the gateway returns for the n-th transfer of a booking
PayoutReference(bid, n) == Some(<<bid, n>>)

\* what the release attempt inside confirm_booking comes to:
\*   "none"      the conditions for an immediate release are not met
\*   "MissingBankDetails", "UnmappedBankCode"   early 200 with a warning
\*   "error"     an exception before the gateway is called (caught)
\*   "call"      the transfer request is sent
ConfirmRelease(b) ==
    LET landlord_details == get_landlord_account_details(b)
    IN  IF ~(b.initial_amount_paid_ngn[1] > 0 /\ ~b.funds_released) THEN "none"
        ELSE IF landlord_details = None THEN "MissingBankDetails"
        ELSE IF ~Truthy(landlord_details[1].account_number) THEN "MissingBankDetails"
        ELSE IF landlord_details[1].bank_name = NoneStr THEN "error"
        ELSE IF LowerStrip(landlord_details[1].bank_name) \notin DOMAIN BANK_CODE_MAPPING
        THEN "UnmappedBankCode"
        ELSE IF "property_title" \notin DOMAIN landlord_details[1] THEN "error"
        ELSE "call"

confirm_booking(u, bid, gw) ==
    LET b == bookings[bid]
        out == CASE ~OwnedBooking(u, bid) -> "NotFound"
                 [] b.status # "paid_pending_confirmation" -> "StateConflict"
                 [] ~is_in_confirmation_window(b) -> "ConfirmationWindowExpired"
                 [] OTHER -> "ok"
        release == IF out = "ok" THEN ConfirmRelease(b) ELSE "none"
        called == release = "call"
        confirmed == [b EXCEPT !.status = "confirmed"]
        n == disbursed[bid] + 1
    IN  /\ (called /\ gw = "success") => disbursed[bid] < MaxDisburse
        /\ gw # "success" => called
        /\ bookings' =
            IF out # "ok" THEN bookings
            ELSE IF called /\ gw = "success"
            THEN [bookings EXCEPT
                    ![bid] = Save(mark_funds_released(confirmed, PayoutReference(bid, n)))]
            ELSE [bookings EXCEPT ![bid] = Save(confirmed)]
        /\ disbursed' = IF called /\ gw = "success"
                        THEN [disbursed EXCEPT ![bid] = n] ELSE disbursed
        /\ last' = [BookingReq("confirm_booking", u, bid) EXCEPT
                        !.out = out,
                        !.gateway = IF called THEN gw ELSE "none",
                        !.warning = IF release \in {"MissingBankDetails", "UnmappedBankCode"}
                                    THEN release ELSE "none"]
        /\ UNCHANGED <<payments, hotelBookings, config, inflight, now>>

\* the row cancel_booking and request_refund write
\* the cancellation without the request of the refund
Cancelled_status_only(b) == Save([b EXCEPT !.status = "cancelled"])

Cancelled(b) ==
    Save([b EXCEPT !.status = "cancelled", !.refund_status = "requested",
                   !.refund_processed_at = Some(now)])

\* cancel_booking without the test of the status
cancel_booking_any_status(u, bid) ==
    LET b == bookings[bid]
        out == CASE ~OwnedBooking(u, bid) -> "NotFound"
                 [] ~is_in_cancellation_window(b) -> "CancellationWindowExpired"
                 [] OTHER -> "ok"
    IN  /\ bookings' = IF out = "ok" THEN [bookings EXCEPT ![bid] = Cancelled(b)]
                       ELSE bookings
        /\ last' = [BookingReq("cancel_booking", u, bid) EXCEPT !.out = out]
        /\ UNCHANGED <<payments, hotelBookings, disbursed,
                       config, inflight, now>>

cancel_booking(u, bid) ==
    LET b == bookings[bid]
        out == CASE ~OwnedBooking(u, bid) -> "NotFound"
                 [] b.status \in {"confirmed", "cancelled", "refunded", "released"} ->
                        "StateConflict"
                 [] ~is_in_cancellation_window(b) -> "CancellationWindowExpired"
                 [] OTHER -> "ok"
    IN  /\ bookings' = IF out = "ok" THEN [bookings EXCEPT ![bid] = Cancelled(b)]
                       ELSE bookings
        /\ last' = [BookingReq("cancel_booking", u, bid) EXCEPT !.out = out]
        /\ UNCHANGED <<payments, hotelBookings, disbursed,
                       config, inflight, now>>

request_refund(u, bid) ==
    LET b == bookings[bid]
        out == CASE ~OwnedBooking(u, bid) -> "NotFound"
                 [] b.status \notin {"paid_pending_confirmation"} -> "StateConflict"
                 [] ~is_in_cancellation_window(b) -> "RefundWindowExpired"
                 [] b.status = "paid_pending_confirmation" /\ ~is_in_confirmation_window(b) ->
                        "AutomaticProcessExpected"
                 [] OTHER -> "ok"
    IN  /\ bookings' = IF out = "ok" THEN [bookings EXCEPT ![bid] = Cancelled(b)]
                       ELSE bookings
        /\ last' = [BookingReq("request_refund", u, bid) EXCEPT !.out = out]
        /\ UNCHANGED <<payments, hotelBookings, disbursed,
                       config, inflight, now>>

(***************************************************************************)
(* release_funds                                                           *)
(***************************************************************************)
\* the owner the view resolves from the published listing; "none" when absent
owner_user(b) ==
    CASE b.listing_type = "landlord_listing" ->
            IF b.listing_id \in DOMAIN Property
            THEN PropertyDraft[Property[b.listing_id].draft].user ELSE "none"
      [] b.listing_type = "agent_listing" ->
            IF b.listing_id \in DOMAIN AgentProperty
            THEN AgentPropertyDraft[AgentProperty[b.listing_id].draft].agent ELSE "none"
      [] b.listing_type = "hotel_listing" ->
            IF b.listing_id \in DOMAIN HotelListing
            THEN HotelListing[b.listing_id].owner ELSE "none"
      [] OTHER -> "none"

\* ReleaseOutcome with a transfer the gateway rejects taken for a success
ReleaseOutcome_rejection_as_success(u, bid, gw) ==
    LET b == bookings[bid]
    IN  CASE bid \notin BookingIds -> "NotFound"
          [] get_related_published_listing(b) = None -> "ListingNotFound"
          [] owner_user(b) = "none" \/ u # owner_user(b) -> "NotAuthorized"
          [] b.initial_amount_paid_ngn = None -> "ServerError"
          [] ~can_release_funds(b) -> "ReleaseNotEligible"
          [] ~Truthy(get_landlord_account_details(b)[1].account_number) ->
                "MissingBankDetails"
          [] LowerStrip(get_landlord_account_details(b)[1].bank_name)
                \notin DOMAIN BANK_CODE_MAPPING -> "UnmappedBankCode"
          [] gw \in {"success", "rejected"} -> "ok"
          [] OTHER -> "GatewayUnavailable"

\* ReleaseOutcome without the test of the requesting user
ReleaseOutcome_any_user(u, bid, gw) ==
    LET b == bookings[bid]
        landlord_details == get_landlord_account_details(b)
    IN  CASE bid \notin BookingIds -> "NotFound"
          [] get_related_published_listing(b) = None -> "ListingNotFound"
          [] ~can_release_funds(b) /\ b.initial_amount_paid_ngn = None -> "ServerError"
          [] ~can_release_funds(b) -> "ReleaseNotEligible"
          [] landlord_details = None \/ ~Truthy(landlord_details[1].account_number) ->
                "MissingBankDetails"
          [] LowerStrip(landlord_details[1].bank_name) \notin DOMAIN BANK_CODE_MAPPING ->
                "UnmappedBankCode"
          [] gw = "success" -> "ok"
          [] gw = "rejected" -> "GatewayRejected"
          [] OTHER -> "GatewayUnavailable"

ReleaseOutcome(u, bid, gw) ==
    LET b == bookings[bid]
        landlord_details == get_landlord_account_details(b)
    IN  CASE bid \notin BookingIds -> "NotFound"
          [] get_related_published_listing(b) = None -> "ListingNotFound"
          [] owner_user(b) = "none" \/ u # owner_user(b) -> "NotAuthorized"
          \* building the reason compares the amount with 0: TypeError on None
          [] ~can_release_funds(b) /\ b.initial_amount_paid_ngn = None -> "ServerError"
          [] ~can_release_funds(b) -> "ReleaseNotEligible"
          [] landlord_details = None \/ ~Truthy(landlord_details[1].account_number) ->
                "MissingBankDetails"
          [] LowerStrip(landlord_details[1].bank_name) \notin DOMAIN BANK_CODE_MAPPING ->
                "UnmappedBankCode"
          [] gw = "success" -> "ok"
          [] gw = "rejected" -> "GatewayRejected"
          [] OTHER -> "GatewayUnavailable"

release_funds(u, bid, gw) ==
    LET out == ReleaseOutcome(u, bid, gw)
        called == out \in {"ok", "GatewayRejected", "GatewayUnavailable"}
        n == disbursed[bid] + 1
    IN  /\ out = "ok" => disbursed[bid] < MaxDisburse
        /\ gw # "success" => called
        /\ bookings' =
            IF out = "ok"
            THEN [bookings EXCEPT
                    ![bid] = mark_funds_released(bookings[bid], PayoutReference(bid, n))]
            ELSE bookings
        /\ disbursed' = IF out = "ok" THEN [disbursed EXCEPT ![bid] = n] ELSE disbursed
        /\ last' = [BookingReq("release_funds", u, bid) EXCEPT
                        !.out = out, !.gateway = IF called THEN gw ELSE "none"]
        /\ UNCHANGED <<payments, hotelBookings, config, inflight, now>>


(***************************************************************************)
(* payments.initiate_payment: the hotel checkout that fills HotelBooking   *)
(***************************************************************************)
\* django.utils.dateparse.parse_date: None (here -1) unless YYYY-MM-DD
parse_date(s) == strptime(s)

initiate_payment(u, room_id, ci, co, gw) ==
    LET check_in == parse_date(ci)
        check_out == parse_date(co)
        hid == Len(hotelBookings) + 1
        transaction_ref == <<"RMN", hid>>
        err == CASE room_id = 0 \/ ci = "" \/ co = "" -> "ValidationError"
                 [] check_in < 0 \/ check_out < 0 \/ check_out <= check_in ->
                        "InvalidDateRange"
                 [] room_id \notin DOMAIN RoomType -> "RoomNotFound"
                 [] OTHER -> "ok"
        reachedGateway == err = "ok" /\ squadConfigured
        out == CASE err # "ok" -> err
                 [] ~squadConfigured -> "GatewayMisconfigured"
                 [] gw = "success" -> "ok"
                 [] gw = "rejected" -> "GatewayRejected"
                 [] OTHER -> "ServerError"
        total_amount == RoomType[room_id].price_per_night * (check_out - check_in)
        row == [HotelBooking(u, room_id, total_amount, transaction_ref)
                    EXCEPT !.deleted = out \in {"GatewayMisconfigured", "GatewayRejected"}]
    IN  /\ err = "ok" => Len(hotelBookings) < MaxHotelBookings
        /\ gw # "success" => reachedGateway
        /\ hotelBookings' = IF err = "ok" THEN Append(hotelBookings, row) ELSE hotelBookings
        /\ last' = [NoReq EXCEPT !.op = "initiate_payment", !.user = u,
                                 !.room_type_id = room_id,
                                 !.check_in_date = ci, !.check_out_date = co,
                                 !.ref = IF err = "ok" THEN transaction_ref ELSE NoRef,
                                 !.gateway = IF reachedGateway THEN gw ELSE "none",
                                 !.out = out]
        /\ UNCHANGED <<bookings, payments, disbursed, config, inflight, now>>

(***************************************************************************)
(* squad_webhook: the gateway's POST and the browser's GET redirect        *)
(***************************************************************************)
\* shape is what json.loads gives for a body that parses: "object" for a
\* JSON object whose Body, if any, is an object, "array" for a JSON value
\* that is not an object, "body_null" for an object whose Body is null
WebhookReq(method, valid_json, event, transaction_status, ref) ==
    [method |-> method, valid_json |-> valid_json, shape |-> "object",
     event |-> event, transaction_status |-> transaction_status, ref |-> ref]

\* payload.get, or body.get, raises AttributeError, which the view's
\* except Exception answers like a body that does not parse
RaisesOnGet(req) ==
    \/ req.shape = "array"
    \/ req.shape = "body_null" /\ req.event = "charge_successful"

\* the success event whatever the transaction_status of its Body
IsSuccessEvent_any_status(req) ==
    /\ req.method = "POST"
    /\ req.valid_json
    /\ ~RaisesOnGet(req)
    /\ req.event = "charge_successful"

\* the request carries the recognised success event
IsSuccessEvent(req) ==
    /\ req.method = "POST"
    /\ req.valid_json
    /\ ~RaisesOnGet(req)
    /\ req.event = "charge_successful"
    /\ req.transaction_status = "Success"

\* the request reaches the lookup by transaction reference
ReachesLookup(req) ==
    \/ req.method = "GET" /\ req.ref # NoRef
    \/ IsSuccessEvent(req)

\* the row saved whatever its status is
mark_paid_always(row) == [row EXCEPT !.status = "paid", !.updated_at = now]

\* if record.status != 'paid': record.status = 'paid'; record.save()
mark_paid(row) ==
    IF row.status # "paid" THEN [row EXCEPT !.status = "paid", !.updated_at = now]
    ELSE row

squad_webhook(req) ==
    LET hb == HotelBookingsByRef(req.ref)
        lp == LeasePaymentsByRef(req.ref)
        out == CASE req.method = "GET" /\ req.ref = NoRef -> "html_invalid_request"
                 [] req.method = "GET" /\ hb # {} -> "html_hotel_success"
                 [] req.method = "GET" /\ lp # {} -> "html_lease_success"
                 [] req.method = "GET" -> "html_not_found"
                 [] req.method # "POST" -> "ignored"
                 [] ~req.valid_json \/ RaisesOnGet(req) -> "BadRequest"
                 [] ~IsSuccessEvent(req) -> "ignored"
                 [] hb # {} \/ lp # {} -> "ok"
                 [] OTHER -> "ignored"
        hotel == ReachesLookup(req) /\ hb # {}
        lease == ReachesLookup(req) /\ hb = {} /\ lp # {}
        h == CHOOSE i \in hb : TRUE
        p == CHOOSE i \in lp : TRUE
        newlyPaid == lease /\ payments[p].status # "paid"
    IN  /\ hotelBookings' =
            IF hotel THEN [hotelBookings EXCEPT ![h] = mark_paid(@)] ELSE hotelBookings
        /\ payments' = IF lease THEN [payments EXCEPT ![p] = mark_paid(@)] ELSE payments
        /\ bookings' =
            IF newlyPaid
            THEN [i \in BookingIds |->
                    IF i \in BookingOfPayment(p) /\ bookings[i].status = "saved"
                    THEN Save([bookings[i] EXCEPT !.status = "paid_pending_confirmation"])
                    ELSE bookings[i]]
            ELSE bookings
        /\ last' = [NoReq EXCEPT !.op = "squad_webhook", !.method = req.method,
                                 !.valid_json = req.valid_json, !.shape = req.shape,
                                 !.event = req.event,
                                 !.transaction_status = req.transaction_status,
                                 !.ref = req.ref, !.out = out]
        /\ UNCHANGED <<disbursed, config, inflight, now>>

(***************************************************************************)
(* The handlers step by step.  The server runs requests in parallel and no *)
(* handler takes a lock or opens a transaction, so between the read of a   *)
(* row, the call to the gateway and the write of the row other requests    *)
(* are served.  inflight[p] is what request p holds in memory: row is the  *)
(* Booking instance it has read, with the assignments made to it so far.   *)
(* A step that sends no response leaves last empty.                        *)
(***************************************************************************)
Slots == 1..MaxRequests

Idle ==
    [pc |-> "idle", op |-> "none", user |-> "none", bid |-> 0, row |-> None,
     listing_type |-> "", listing_id |-> 0, check_in_date |-> "",
     check_out_date |-> "", gateway |-> "none", payout |-> None]

Holding(p, op, pc) == inflight[p].op = op /\ inflight[p].pc = pc

\* request p answers, or goes on to its next step holding slot
Respond(p, response) ==
    /\ last' = response
    /\ inflight' = [inflight EXCEPT ![p] = Idle]

GoOn(p, slot) ==
    /\ last' = NoReq
    /\ inflight' = [inflight EXCEPT ![p] = slot]

\* save_booking up to the lookup of an existing booking
save_booking_read(p, u, lt, lid, ci, co) ==
    LET out == SaveOutcome(u, lt, lid)
    IN  /\ inflight[p].pc = "idle"
        /\ IF out = "ok"
           THEN GoOn(p, [Idle EXCEPT !.pc = "create", !.op = "save_booking", !.user = u,
                                     !.listing_type = lt, !.listing_id = lid,
                                     !.check_in_date = ci, !.check_out_date = co])
           ELSE Respond(p, [NoReq EXCEPT !.op = "save_booking", !.user = u,
                                         !.listing_type = lt, !.listing_id = lid,
                                         !.check_in_date = ci, !.check_out_date = co,
                                         !.out = out])
        /\ UNCHANGED <<bookings, payments, hotelBookings, disbursed, config, now>>

\* Booking.objects.create(**booking_data)
save_booking_create(p) ==
    LET r == inflight[p]
        hotel == r.listing_type = "hotel_listing"
        row == Booking(r.user, r.listing_type, r.listing_id, "saved", None, NoneStr,
                       IF hotel /\ r.check_in_date # "" THEN r.check_in_date ELSE NoneStr,
                       IF hotel /\ r.check_out_date # "" THEN r.check_out_date ELSE NoneStr,
                       None)
    IN  /\ Holding(p, "save_booking", "create")
        /\ Len(bookings) < MaxBookings
        /\ bookings' = Append(bookings, row)
        /\ Respond(p, [NoReq EXCEPT !.op = "save_booking", !.user = r.user,
                                    !.listing_type = r.listing_type,
                                    !.listing_id = r.listing_id,
                                    !.check_in_date = r.check_in_date,
                                    !.check_out_date = r.check_out_date,
                                    !.booking_id = Len(bookings) + 1, !.out = "ok"])
        /\ UNCHANGED <<payments, hotelBookings, disbursed, config, now>>

\* confirm_booking up to booking.status = 'confirmed' on the instance
confirm_booking_read(p, u, bid) ==
    LET b == bookings[bid]
        out == CASE ~OwnedBooking(u, bid) -> "NotFound"
                 [] b.status # "paid_pending_confirmation" -> "StateConflict"
                 [] ~is_in_confirmation_window(b) -> "ConfirmationWindowExpired"
                 [] OTHER -> "ok"
    IN  /\ inflight[p].pc = "idle"
        /\ IF out = "ok"
           THEN GoOn(p, [Idle EXCEPT !.pc = "release", !.op = "confirm_booking",
                                     !.user = u, !.bid = bid,
                                     !.row = Some([b EXCEPT !.status = "confirmed"])])
           ELSE Respond(p, [BookingReq("confirm_booking", u, bid) EXCEPT !.out = out])
        /\ UNCHANGED <<bookings, payments, hotelBookings, disbursed, config, now>>

\* the release attempt of confirm_booking: the early return with a warning
\* saves the instance; a transfer the gateway accepts is followed by
\* mark_funds_released, which writes its four columns
confirm_booking_release(p, gw) ==
    LET r == inflight[p]
        b == r.row[1]
        release == ConfirmRelease(b)
        called == release = "call"
        n == disbursed[r.bid] + 1
        released == mark_funds_released(b, PayoutReference(r.bid, n))
    IN  /\ Holding(p, "confirm_booking", "release")
        /\ (called /\ gw = "success") => disbursed[r.bid] < MaxDisburse
        /\ gw # "success" => called
        /\ IF release \in {"MissingBankDetails", "UnmappedBankCode"}
           THEN /\ bookings' = [bookings EXCEPT ![r.bid] = Save(b)]
                /\ disbursed' = disbursed
                /\ Respond(p, [BookingReq("confirm_booking", r.user, r.bid) EXCEPT
                                    !.out = "ok", !.warning = release])
           ELSE IF called /\ gw = "success"
           THEN /\ bookings' =
                    [bookings EXCEPT
                        ![r.bid] = [@ EXCEPT !.funds_released = released.funds_released,
                                             !.release_status = released.release_status,
                                             !.released_at = released.released_at,
                                             !.payout_reference = released.payout_reference]]
                /\ disbursed' = [disbursed EXCEPT ![r.bid] = n]
                /\ GoOn(p, [r EXCEPT !.pc = "save", !.row = Some(released),
                                     !.gateway = gw])
           ELSE /\ bookings' = bookings
                /\ disbursed' = disbursed
                /\ GoOn(p, [r EXCEPT !.pc = "save",
                                     !.gateway = IF called THEN gw ELSE "none"])
        /\ UNCHANGED <<payments, hotelBookings, config, now>>

\* the booking.save() that ends confirm_booking: every column of the instance
confirm_booking_save(p) ==
    LET r == inflight[p]
    IN  /\ Holding(p, "confirm_booking", "save")
        /\ bookings' = [bookings EXCEPT ![r.bid] = Save(r.row[1])]
        /\ Respond(p, [BookingReq("confirm_booking", r.user, r.bid) EXCEPT
                            !.out = "ok", !.gateway = r.gateway])
        /\ UNCHANGED <<payments, hotelBookings, disbursed, config, now>>

\* cancel_booking up to the assignments to the instance
cancel_booking_read(p, u, bid) ==
    LET b == bookings[bid]
        out == CASE ~OwnedBooking(u, bid) -> "NotFound"
                 [] b.status \in {"confirmed", "cancelled", "refunded", "released"} ->
                        "StateConflict"
                 [] ~is_in_cancellation_window(b) -> "CancellationWindowExpired"
                 [] OTHER -> "ok"
    IN  /\ inflight[p].pc = "idle"
        /\ IF out = "ok"
           THEN GoOn(p, [Idle EXCEPT !.pc = "save", !.op = "cancel_booking",
                                     !.user = u, !.bid = bid, !.row = Some(b)])
           ELSE Respond(p, [BookingReq("cancel_booking", u, bid) EXCEPT !.out = out])
        /\ UNCHANGED <<bookings, payments, hotelBookings, disbursed, config, now>>

\* request_refund up to the assignments to the instance
request_refund_read(p, u, bid) ==
    LET b == bookings[bid]
        out == CASE ~OwnedBooking(u, bid) -> "NotFound"
                 [] b.status \notin {"paid_pending_confirmation"} -> "StateConflict"
                 [] ~is_in_cancellation_window(b) -> "RefundWindowExpired"
                 [] b.status = "paid_pending_confirmation" /\ ~is_in_confirmation_window(b) ->
                        "AutomaticProcessExpected"
                 [] OTHER -> "ok"
    IN  /\ inflight[p].pc = "idle"
        /\ IF out = "ok"
           THEN GoOn(p, [Idle EXCEPT !.pc = "save", !.op = "request_refund",
                                     !.user = u, !.bid = bid, !.row = Some(b)])
           ELSE Respond(p, [BookingReq("request_refund", u, bid) EXCEPT !.out = out])
        /\ UNCHANGED <<bookings, payments, hotelBookings, disbursed, config, now>>

\* the booking.save() of cancel_booking and of request_refund: every column
\* of the instance
cancel_or_refund_save(p) ==
    LET r == inflight[p]
    IN  /\ r.pc = "save" /\ r.op \in {"cancel_booking", "request_refund"}
        /\ bookings' = [bookings EXCEPT ![r.bid] = Cancelled(r.row[1])]
        /\ Respond(p, [BookingReq(r.op, r.user, r.bid) EXCEPT !.out = "ok"])
        /\ UNCHANGED <<payments, hotelBookings, disbursed, config, now>>

\* release_funds up to the request to the gateway
release_funds_read(p, u, bid) ==
    LET out == ReleaseOutcome(u, bid, "success")
    IN  /\ inflight[p].pc = "idle"
        /\ IF out = "ok"
           THEN GoOn(p, [Idle EXCEPT !.pc = "call", !.op = "release_funds",
                                     !.user = u, !.bid = bid,
                                     !.row = Some(bookings[bid])])
           ELSE Respond(p, [BookingReq("release_funds", u, bid) EXCEPT !.out = out])
        /\ UNCHANGED <<bookings, payments, hotelBookings, disbursed, config, now>>

\* requests.post to the transfer endpoint and the gateway's answer
release_funds_call(p, gw) ==
    LET r == inflight[p]
        n == disbursed[r.bid] + 1
    IN  /\ Holding(p, "release_funds", "call")
        /\ gw = "success" => disbursed[r.bid] < MaxDisburse
        /\ IF gw = "success"
           THEN /\ disbursed' = [disbursed EXCEPT ![r.bid] = n]
                /\ GoOn(p, [r EXCEPT !.pc = "write", !.gateway = gw,
                                     !.payout = PayoutReference(r.bid, n)])
           ELSE /\ disbursed' = disbursed
                /\ Respond(p, [BookingReq("release_funds", r.user, r.bid) EXCEPT
                                    !.out = IF gw = "rejected" THEN "GatewayRejected"
                                            ELSE "GatewayUnavailable",
                                    !.gateway = gw])
        /\ UNCHANGED <<bookings, payments, hotelBookings, config, now>>

\* mark_funds_released after the transfer: save(update_fields=[...]) writes
\* the four columns and no other
release_funds_write(p) ==
    LET r == inflight[p]
    IN  /\ Holding(p, "release_funds", "write")
        /\ bookings' = [bookings EXCEPT ![r.bid] = mark_funds_released(@, r.payout)]
        /\ Respond(p, [BookingReq("release_funds", r.user, r.bid) EXCEPT
                            !.out = "ok", !.gateway = r.gateway])
        /\ UNCHANGED <<payments, hotelBookings, disbursed, config, now>>

(***************************************************************************)
(* Time passes.                                                            *)
(***************************************************************************)
AdvanceClock(points) ==
    /\ \E t \in points : t > now /\ now' = t
    /\ last' = NoReq
    /\ UNCHANGED <<bookings, payments, hotelBookings, disbursed, config, inflight>>

(***************************************************************************)
(* The requests the model sends.                                           *)
(***************************************************************************)
Bookers == {"tenant"}
RequestBookingIds == 1..MaxBookings

LeaseReq(lt, lid, pt) ==
    [listing_type |-> lt, listing_id |-> lid, payment_type |-> pt,
     check_in_date |-> "", check_out_date |-> "", room_type_id |-> 0]

HotelReq(lid, pt, ci, co, room) ==
    [listing_type |-> "hotel_listing", listing_id |-> lid, payment_type |-> pt,
     check_in_date |-> ci, check_out_date |-> co, room_type_id |-> room]

\* the listing of a store, as the requests name it
ListingOf(name) ==
    CASE name = "draft_only" -> <<"landlord_listing", 2>>
      [] name = "agent" -> <<"agent_listing", 1>>
      [] name \in {"hotel", "hotel_draft"} -> <<"hotel_listing", 1>>
      [] OTHER -> <<"landlord_listing", 1>>

\* the lifecycle: the tenant's well-formed requests for the listing of the store
InitiateRequests ==
    {CASE store = "hotel" -> HotelReq(1, "booking_fee", "2024-01-01", "2024-01-04", 1)
       [] store = "agent" -> LeaseReq("agent_listing", 1, "booking_fee")
       [] OTHER -> LeaseReq(ListingOf(store)[1], ListingOf(store)[2], "security_deposit")}

SaveRequests == {<<ListingOf(store)[1], ListingOf(store)[2], "", "">>}

Owners == {"owner"}

LeaseRefs == {<<"LEASEPAY", i>> : i \in 1..MaxPayments}
HotelRefs == {<<"RMN", i>> : i \in 1..MaxHotelBookings}

WebhookRequests ==
    {WebhookReq("POST", TRUE, "charge_successful", "Success", ref) : ref \in LeaseRefs}

InitWith(stores) ==
    /\ bookings = <<>>
    /\ payments = <<>>
    /\ hotelBookings = <<>>
    /\ disbursed = [b \in 1..MaxBookings |-> 0]
    /\ squadConfigured \in BOOLEAN
    /\ store \in stores
    /\ listings = StoreOf(store)
    /\ now = 0
    /\ inflight = [p \in Slots |-> Idle]
    /\ last = NoReq

Init == InitWith(Stores)

Next ==
    \/ \E u \in Bookers, r \in SaveRequests : save_booking(u, r[1], r[2], r[3], r[4])
    \/ \E u \in Bookers, req \in InitiateRequests, gw \in {"success", "rejected"} :
            initiate_lease_payment(u, req, gw)
    \/ \E u \in Bookers, bid \in RequestBookingIds, gw \in DisburseOutcomes :
            confirm_booking(u, bid, gw)
    \/ \E u \in Bookers, bid \in RequestBookingIds : cancel_booking(u, bid)
    \/ \E u \in Bookers, bid \in RequestBookingIds : request_refund(u, bid)
    \/ \E u \in Owners, bid \in RequestBookingIds, gw \in DisburseOutcomes :
            release_funds(u, bid, gw)
    \/ \E req \in WebhookRequests : squad_webhook(req)
    \/ AdvanceClock(CoarseTimePoints)

Spec == Init /\ [][Next]_vars

(***************************************************************************)
(* The two windows: the tenant's requests on the landlord's listing, with  *)
(* the clock stopping on both sides of the end of each window.             *)
(***************************************************************************)
InitWindows == InitWith({"landlord"})

NextWindows ==
    \/ \E u \in Bookers, r \in SaveRequests : save_booking(u, r[1], r[2], r[3], r[4])
    \/ \E u \in Bookers, req \in InitiateRequests : initiate_lease_payment(u, req, "success")
    \/ \E u \in Bookers, bid \in RequestBookingIds, gw \in DisburseOutcomes :
            confirm_booking(u, bid, gw)
    \/ \E u \in Bookers, bid \in RequestBookingIds : cancel_booking(u, bid)
    \/ \E u \in Bookers, bid \in RequestBookingIds : request_refund(u, bid)
    \/ AdvanceClock(FineTimePoints)

SpecWindows == InitWindows /\ [][NextWindows]_vars

(***************************************************************************)
(* The payment notifications: the hotel's store, where the hotel checkout  *)
(* fills HotelBooking and a booking fee fills LeasePayment, with every     *)
(* kind of request the gateway or a browser sends to squad_webhook.        *)
(***************************************************************************)
UnknownRef == <<"RMN", MaxHotelBookings + 1>>

AllWebhookRequests ==
    {WebhookReq("POST", TRUE, "charge_successful", "Success", ref) :
        ref \in LeaseRefs \cup HotelRefs \cup {UnknownRef}}
    \cup {WebhookReq("GET", TRUE, "", "", ref) :
            ref \in LeaseRefs \cup HotelRefs \cup {NoRef}}
    \cup {WebhookReq("POST", FALSE, "", "", NoRef),
          WebhookReq("POST", TRUE, "charge_failed", "Failed", <<"LEASEPAY", 1>>),
          WebhookReq("POST", TRUE, "charge_successful", "Failed", <<"RMN", 1>>),
          WebhookReq("PUT", TRUE, "charge_successful", "Success", <<"RMN", 1>>),
          [WebhookReq("POST", TRUE, "", "", NoRef) EXCEPT !.shape = "array"],
          [WebhookReq("POST", TRUE, "charge_successful", "", NoRef)
                EXCEPT !.shape = "body_null"],
          [WebhookReq("POST", TRUE, "charge_failed", "", NoRef)
                EXCEPT !.shape = "body_null"]}

InitWebhook == InitWith({"hotel"})

NextWebhook ==
    \/ \E u \in Bookers, r \in SaveRequests : save_booking(u, r[1], r[2], r[3], r[4])
    \/ \E u \in Bookers, req \in InitiateRequests, gw \in {"success", "rejected"} :
            initiate_lease_payment(u, req, gw)
    \/ \E u \in Bookers, gw \in {"success", "rejected"} :
            initiate_payment(u, 1, "2024-01-01", "2024-01-04", gw)
    \/ \E req \in AllWebhookRequests : squad_webhook(req)
    \/ AdvanceClock(CoarseTimePoints)

SpecWebhook == InitWebhook /\ [][NextWebhook]_vars

(***************************************************************************)
(* The amounts: listings of every lease term and the hotel, with payment   *)
(* requests of every payment type, well-formed and not.                    *)
(***************************************************************************)
AmountStores ==
    {"landlord", "landlord_monthly", "landlord_6_months", "landlord_2_years",
     "landlord_no_term", "draft_only", "agent", "hotel",
     "landlord_pending", "hotel_draft"}

RequestPaymentTypes == VALID_PAYMENT_TYPES \cup {"hotel_stay", ""}

StayDates ==
    {<<"2024-01-01", "2024-01-04">>, <<"2024-01-04", "2024-01-01">>,
     <<"2024-01-01", "2024-01-01">>, <<"01/04/2024", "2024-01-04">>,
     <<"", "2024-01-04">>}

AmountRequests ==
    IF store \in {"hotel", "hotel_draft"}
    THEN {HotelReq(1, pt, d[1], d[2], room) :
            pt \in {"hotel_stay", "booking_fee", "security_deposit"},
            d \in StayDates, room \in {1, 2}}
    ELSE {LeaseReq(ListingOf(store)[1], ListingOf(store)[2], pt) :
            pt \in RequestPaymentTypes}
         \cup {LeaseReq("shortlet", 1, "booking_fee"),
               LeaseReq("landlord_listing", 3, "booking_fee")}

AmountSaveRequests ==
    {<<ListingOf(store)[1], ListingOf(store)[2], "2024-01-01", "2024-01-04">>,
     <<"shortlet", 1, "", "">>, <<"", 1, "", "">>, <<"landlord_listing", 3, "", "">>}

InitAmounts == InitWith(AmountStores)

NextAmounts ==
    \/ \E u \in Bookers, r \in AmountSaveRequests :
            save_booking(u, r[1], r[2], r[3], r[4])
    \/ \E u \in Bookers, req \in AmountRequests, gw \in ChargeOutcomes :
            initiate_lease_payment(u, req, gw)

SpecAmounts == InitAmounts /\ [][NextAmounts]_vars

(***************************************************************************)
(* Who may do what: the requests that take a booking id, sent by the       *)
(* tenant, by the owner of the listing and by a third user, for ids of     *)
(* bookings that exist and ids that do not.                                *)
(***************************************************************************)
Requesters == {"tenant", "owner", "stranger"}

AccessStores == Stores \cup {"landlord_unverified"}

InitAccess == InitWith(AccessStores)

NextAccess ==
    \/ \E u \in Bookers, r \in SaveRequests : save_booking(u, r[1], r[2], r[3], r[4])
    \/ \E u \in Bookers, req \in InitiateRequests : initiate_lease_payment(u, req, "success")
    \/ \E u \in Requesters, bid \in RequestBookingIds, gw \in DisburseOutcomes :
            confirm_booking(u, bid, gw)
    \/ \E u \in Requesters, bid \in RequestBookingIds : cancel_booking(u, bid)
    \/ \E u \in Requesters, bid \in RequestBookingIds : request_refund(u, bid)
    \/ \E u \in Requesters, bid \in RequestBookingIds, gw \in DisburseOutcomes :
            release_funds(u, bid, gw)

SpecAccess == InitAccess /\ [][NextAccess]_vars

(***************************************************************************)
(* Requests in parallel: the tenant's and the owner's requests for the     *)
(* bookings of a listing, served step by step and interleaved.             *)
(***************************************************************************)
RaceStores == {"landlord", "agent"}

InitRace == InitWith(RaceStores) /\ squadConfigured

NextRace ==
    \/ \E p \in Slots, u \in Bookers, r \in SaveRequests :
            save_booking_read(p, u, r[1], r[2], r[3], r[4])
    \/ \E p \in Slots : save_booking_create(p)
    \/ \E u \in Bookers, req \in InitiateRequests : initiate_lease_payment(u, req, "success")
    \/ \E p \in Slots, u \in Bookers, bid \in RequestBookingIds : confirm_booking_read(p, u, bid)
    \/ \E p \in Slots, gw \in DisburseOutcomes : confirm_booking_release(p, gw)
    \/ \E p \in Slots : confirm_booking_save(p)
    \/ \E p \in Slots, u \in Bookers, bid \in RequestBookingIds : cancel_booking_read(p, u, bid)
    \/ \E p \in Slots, u \in Bookers, bid \in RequestBookingIds : request_refund_read(p, u, bid)
    \/ \E p \in Slots : cancel_or_refund_save(p)
    \/ \E p \in Slots, u \in Owners, bid \in RequestBookingIds : release_funds_read(p, u, bid)
    \/ \E p \in Slots, gw \in DisburseOutcomes : release_funds_call(p, gw)
    \/ \E p \in Slots : release_funds_write(p)

SpecRace == InitRace /\ [][NextRace]_vars

(***************************************************************************)
(* Properties of the lifecycle.                                            *)
(***************************************************************************)
ActiveStatuses == {"saved", "paid_pending_confirmation"}

\* the step just taken served a request of this operation
Served(op) == last'.op = op

\* the beneficiary of the listing of a booking: the user of the draft of a
\* landlord listing, the agent of the draft of an agent listing, the owner of
\* a hotel; the draft is that of the published listing, or the draft of that
\* id when the listing is not published; "none" when there is neither
Beneficiary(b) ==
    LET lid == b.listing_id
    IN  CASE b.listing_type = "landlord_listing" ->
                IF lid \in DOMAIN Property THEN PropertyDraft[Property[lid].draft].user
                ELSE IF lid \in DOMAIN PropertyDraft THEN PropertyDraft[lid].user
                ELSE "none"
          [] b.listing_type = "agent_listing" ->
                IF lid \in DOMAIN AgentProperty
                THEN AgentPropertyDraft[AgentProperty[lid].draft].agent
                ELSE IF lid \in DOMAIN AgentPropertyDraft THEN AgentPropertyDraft[lid].agent
                ELSE "none"
          [] b.listing_type = "hotel_listing" ->
                IF lid \in DOMAIN HotelListing THEN HotelListing[lid].owner ELSE "none"
          [] OTHER -> "none"

\* C1: at most one booking in status saved or paid_pending_confirmation
\* exists for any pair of user and listing; two payment initiations do not
\* leave two bookings in paid_pending_confirmation
C1_OneActiveBookingPerUserAndListing ==
    \A i \in BookingIds : \A j \in BookingIds :
        (/\ i # j
         /\ bookings[i].user = bookings[j].user
         /\ bookings[i].listing_type = bookings[j].listing_type
         /\ bookings[i].listing_id = bookings[j].listing_id
         /\ bookings[i].status \in ActiveStatuses)
        => bookings[j].status \notin ActiveStatuses

C3_NoSecondDisbursement ==
    [][\A bid \in BookingIds :
        (Served("release_funds") /\ last'.booking_id = bid
            /\ last'.user = owner_user(bookings[bid])
            /\ bookings[bid].funds_released)
        => /\ last'.out = "ReleaseNotEligible"
           /\ last'.gateway = "none"
           /\ disbursed' = disbursed
           /\ bookings'[bid].payout_reference = bookings[bid].payout_reference
           /\ bookings'[bid].released_at = bookings[bid].released_at]_vars

C3_Witness ==
    /\ last.op = "release_funds" /\ last.out = "ReleaseNotEligible"
    /\ last.booking_id \in BookingIds
    /\ bookings[last.booking_id].funds_released
    /\ disbursed[last.booking_id] = 1

\* the beneficiary's bank details are present, verified and mapped to a bank
\* code of the gateway
VerifiedMappedBank(b) ==
    LET details == get_landlord_account_details(b)
    IN  /\ details # None
        /\ Truthy(details[1].bank_name)
        /\ Truthy(details[1].account_number)
        /\ Truthy(details[1].account_name)
        /\ details[1].bank_verified
        /\ LowerStrip(details[1].bank_name) \in DOMAIN BANK_CODE_MAPPING

\* C6: a confirm_booking request that is accepted for a booking with a
\* positive amount, funds not yet released and verified, mapped bank details
\* of the beneficiary, with a gateway that accepts the transfer, leaves the
\* booking confirmed with funds_released true and release_status released
C6_ConfirmReleasesFunds ==
    [][\A bid \in BookingIds :
        (/\ Served("confirm_booking") /\ last'.booking_id = bid
         /\ last'.out = "ok"
         /\ last'.gateway \notin {"rejected", "network_error"}
         /\ bookings[bid].status = "paid_pending_confirmation"
         /\ bookings[bid].initial_amount_paid_ngn # None
         /\ bookings[bid].initial_amount_paid_ngn[1] > 0
         /\ ~bookings[bid].funds_released
         /\ VerifiedMappedBank(bookings[bid]))
        => /\ bookings'[bid].status = "confirmed"
           /\ bookings'[bid].funds_released
           /\ bookings'[bid].release_status = "released"]_vars

Releasable(b) ==
    /\ b.status = "confirmed"
    /\ b.release_status = "pending"
    /\ ~b.funds_released
    /\ b.initial_amount_paid_ngn # None
    /\ b.initial_amount_paid_ngn[1] > 0
    /\ VerifiedMappedBank(b)

\* C13: a release_funds request whose transfer the gateway rejects, or
\* cannot be reached for, changes no table and leaves the booking confirmed,
\* release_status pending and funds_released false; a booking in that
\* condition stays in it at every step until a transfer succeeds; a
\* release_funds request of the beneficiary for it reaches the gateway and,
\* when the gateway accepts, releases the funds; and a transfer is made only
\* by a step that serves a confirm_booking or release_funds request
C13_FailedReleaseIsResumable ==
    [][/\ \A bid \in BookingIds :
            /\ (/\ Served("release_funds") /\ last'.booking_id = bid
                 /\ last'.gateway \in {"rejected", "network_error"})
                => /\ tables' = tables
                   /\ disbursed' = disbursed
                   /\ last'.out \in {"GatewayRejected", "GatewayUnavailable"}
                   /\ bookings'[bid].status = "confirmed"
                   /\ bookings'[bid].release_status = "pending"
                   /\ ~bookings'[bid].funds_released
                   /\ Releasable(bookings'[bid])
            /\ Releasable(bookings[bid])
                => \/ Releasable(bookings'[bid])
                   \/ /\ Served("release_funds") /\ last'.out = "ok"
                      /\ last'.booking_id = bid
            /\ (/\ Served("release_funds") /\ last'.booking_id = bid
                 /\ last'.user = Beneficiary(bookings[bid])
                 /\ Releasable(bookings[bid]))
                => /\ last'.gateway # "none"
                   /\ last'.gateway = "success"
                        => /\ last'.out = "ok"
                           /\ bookings'[bid].funds_released
                           /\ bookings'[bid].release_status = "released"
                           /\ disbursed'[bid] = disbursed[bid] + 1
       /\ disbursed' # disbursed => last'.op \in {"confirm_booking", "release_funds"}]_vars

\* the gateway rejected the transfer of a release_funds request, and the
\* booking is still confirmed with its funds unreleased
C13_Witness ==
    /\ last.op = "release_funds" /\ last.out = "GatewayRejected"
    /\ last.gateway = "rejected"
    /\ last.booking_id \in BookingIds
    /\ Releasable(bookings[last.booking_id])
    /\ disbursed[last.booking_id] = 0

(***************************************************************************)
(* Properties of the windows.                                              *)
(***************************************************************************)
\* updated_at of a booking in paid_pending_confirmation is the time of its
\* last change of status: a step that creates such a booking or moves one
\* into that status stamps it, and no other step writes it
UpdatedAtIsStatusChange ==
    \A i \in 1..Len(bookings') :
        bookings'[i].status = "paid_pending_confirmation" =>
            IF i \in BookingIds /\ bookings[i].status = "paid_pending_confirmation"
            THEN bookings'[i].updated_at = bookings[i].updated_at
            ELSE bookings'[i].updated_at = now

\* created_at is the time of creation
CreatedAtIsCreation ==
    \A i \in 1..Len(bookings') :
        IF i \in BookingIds THEN bookings'[i].created_at = bookings[i].created_at
        ELSE bookings'[i].created_at = now

\* C5: confirm_booking by the user of the booking succeeds, leaving the
\* status confirmed, exactly when the status is paid_pending_confirmation
\* and at most 48 hours have passed since the last change of status;
\* otherwise no table changes, and with only the window exceeded the error is
\* ConfirmationWindowExpired
C5_ConfirmWithinWindow ==
    [][/\ UpdatedAtIsStatusChange
       /\ \A bid \in BookingIds :
            (/\ Served("confirm_booking") /\ last'.booking_id = bid
             /\ last'.user = bookings[bid].user)
            => LET b == bookings[bid]
                   pending == b.status = "paid_pending_confirmation"
                   elapsed == now - b.updated_at
               IN  /\ last'.out = "ok" <=> (pending /\ elapsed <= 48 * 3600)
                   /\ last'.out = "ok" => bookings'[bid].status = "confirmed"
                   /\ last'.out # "ok" => tables' = tables
                   /\ (pending /\ elapsed > 48 * 3600)
                        => last'.out = "ConfirmationWindowExpired"]_vars

\* a request 48 hours and a second after the payment is refused, and a
\* booking was confirmed 47 hours 59 minutes 59 seconds after its creation
C5_Witness ==
    /\ last.op = "confirm_booking" /\ last.out = "ConfirmationWindowExpired"
    /\ last.booking_id \in BookingIds
    /\ bookings[last.booking_id].status = "paid_pending_confirmation"
    /\ now - bookings[last.booking_id].updated_at = 48 * 3600 + 1
    /\ \E j \in BookingIds :
        /\ bookings[j].status = "confirmed"
        /\ bookings[j].updated_at - bookings[j].created_at = 48 * 3600 - 1

\* C10: cancel_booking by the user of the booking succeeds exactly when the
\* status is saved or paid_pending_confirmation and at most 24 hours have
\* passed since the creation; on success the status is cancelled, the
\* refund_status requested and refund_processed_at the time of the request;
\* otherwise no table changes, and with only the window exceeded the error is
\* CancellationWindowExpired
C10_CancelWithinWindow ==
    [][/\ CreatedAtIsCreation
       /\ \A bid \in BookingIds :
            (/\ Served("cancel_booking") /\ last'.booking_id = bid
             /\ last'.user = bookings[bid].user)
            => LET b == bookings[bid]
                   active == b.status \in ActiveStatuses
                   elapsed == now - b.created_at
               IN  /\ last'.out = "ok" <=> (active /\ elapsed <= 24 * 3600)
                   /\ last'.out = "ok" =>
                        /\ bookings'[bid].status = "cancelled"
                        /\ bookings'[bid].refund_status = "requested"
                        /\ bookings'[bid].refund_processed_at = Some(now)
                   /\ last'.out # "ok" => tables' = tables
                   /\ (active /\ elapsed > 24 * 3600)
                        => last'.out = "CancellationWindowExpired"]_vars

\* a request 24 hours and a second after the creation is refused, and a
\* booking was cancelled exactly 24 hours after its creation
C10_Witness ==
    /\ last.op = "cancel_booking" /\ last.out = "CancellationWindowExpired"
    /\ last.booking_id \in BookingIds
    /\ bookings[last.booking_id].status \in ActiveStatuses
    /\ now - bookings[last.booking_id].created_at = 24 * 3600 + 1
    /\ \E j \in BookingIds :
        /\ bookings[j].status = "cancelled"
        /\ bookings[j].refund_status = "requested"
        /\ bookings[j].refund_processed_at = Some(bookings[j].created_at + 24 * 3600)

\* C11: request_refund by the user of the booking succeeds only when the
\* status is paid_pending_confirmation and at most 24 hours have passed since
\* the creation, and does succeed then when at most 48 hours have passed
\* since the last change of status; with the status and the 24 hours met but
\* more than 48 hours passed since the last change of status the error is
\* AutomaticProcessExpected; on success the status is cancelled and the
\* refund_status requested, on any rejection no table changes
C11_RefundOnlyWhilePendingInWindow ==
    [][\A bid \in BookingIds :
        (/\ Served("request_refund") /\ last'.booking_id = bid
         /\ last'.user = bookings[bid].user)
        => LET b == bookings[bid]
               pending == b.status = "paid_pending_confirmation"
               sinceCreation == now - b.created_at
               sincePayment == now - b.updated_at
           IN  /\ last'.out = "ok" => (pending /\ sinceCreation <= 24 * 3600)
               /\ (pending /\ sinceCreation <= 24 * 3600 /\ sincePayment <= 48 * 3600)
                    => last'.out = "ok"
               /\ (pending /\ sinceCreation <= 24 * 3600 /\ sincePayment > 48 * 3600)
                    => last'.out = "AutomaticProcessExpected"
               /\ last'.out = "ok" =>
                    /\ bookings'[bid].status = "cancelled"
                    /\ bookings'[bid].refund_status = "requested"
               /\ last'.out # "ok" => tables' = tables]_vars

\* a refund was requested exactly 24 hours after the creation of a paid
\* booking
C11_Witness ==
    /\ last.op = "request_refund" /\ last.out = "ok"
    /\ last.booking_id \in BookingIds
    /\ bookings[last.booking_id].status = "cancelled"
    /\ bookings[last.booking_id].refund_status = "requested"
    /\ now - bookings[last.booking_id].created_at = 24 * 3600
    /\ bookings[last.booking_id].lease_payment # None

BookingOps == {"confirm_booking", "cancel_booking", "request_refund", "release_funds"}

\* C19: a request of an operation that takes a booking id is answered
\* NotFound when no booking has the id, and a request of a user who is
\* neither the user of the booking nor the beneficiary of its listing gets
\* that same answer when the booking exists, and changes no table
C19_SameAnswerWhetherBookingExists ==
    [][last'.op \in BookingOps
       => IF last'.booking_id \notin BookingIds
          THEN last'.out = "NotFound"
          ELSE (/\ last'.user # bookings[last'.booking_id].user
                /\ last'.user # Beneficiary(bookings[last'.booking_id]))
               => last'.out = "NotFound" /\ tables' = tables]_vars

\* C14: a confirm_booking request that is accepted for a booking with a
\* positive amount and unreleased funds sends a transfer to the gateway only
\* if the beneficiary's bank details are present, verified and mapped to a
\* bank code; when they are not, the booking is saved as confirmed, no
\* transfer is sent, funds_released stays false and the response carries a
\* warning
C14_ConfirmWarnsWithoutVerifiedBank ==
    [][\A bid \in BookingIds :
        (/\ Served("confirm_booking") /\ last'.booking_id = bid
         /\ last'.out = "ok"
         /\ bookings[bid].initial_amount_paid_ngn # None
         /\ bookings[bid].initial_amount_paid_ngn[1] > 0
         /\ ~bookings[bid].funds_released)
        => /\ last'.gateway # "none" => VerifiedMappedBank(bookings[bid])
           /\ ~VerifiedMappedBank(bookings[bid])
                => /\ bookings'[bid].status = "confirmed"
                   /\ last'.gateway = "none"
                   /\ ~bookings'[bid].funds_released
                   /\ last'.warning # "none"]_vars

(***************************************************************************)
(* Properties of the payment notifications.                                *)
(***************************************************************************)
\* the records a transaction reference names, in either table
Paid(ref) ==
    /\ \A i \in HotelBookingsByRef(ref) : hotelBookings[i].status = "paid"
    /\ \A i \in LeasePaymentsByRef(ref) : payments[i].status = "paid"

Known(ref) == HotelBookingsByRef(ref) # {} \/ LeasePaymentsByRef(ref) # {}

\* C4: a delivery of the success event for a reference whose record is
\* not yet paid moves that record to paid, a delivery for a record that is
\* already paid changes no row of any table, and both are answered 'ok'
C4_WebhookIdempotent ==
    [][(Served("squad_webhook") /\ IsSuccessEvent(last') /\ Known(last'.ref))
       => /\ last'.out = "ok"
          /\ \A i \in HotelBookingsByRef(last'.ref) : hotelBookings'[i].status = "paid"
          /\ \A i \in LeasePaymentsByRef(last'.ref) : payments'[i].status = "paid"
          /\ Paid(last'.ref) => tables' = tables]_vars

\* a delivery answered 'ok' for a record that was paid at an earlier time
C4_Witness ==
    /\ last.op = "squad_webhook" /\ IsSuccessEvent(last) /\ last.out = "ok"
    /\ \E i \in LeasePaymentsByRef(last.ref) :
        payments[i].status = "paid" /\ payments[i].updated_at < now

\* a booking that is linked to a payment record is not in status saved
LinkedNeverSaved ==
    \A i \in BookingIds :
        bookings[i].lease_payment # None => bookings[i].status # "saved"

\* row is old, or old marked paid at this instant
SameOrPaid(row, old) ==
    row = old \/ row = [old EXCEPT !.status = "paid", !.updated_at = now]

\* C17: a squad_webhook request, the gateway's POST or the browser's GET with
\* a reference, changes no booking and adds or removes no row: of the payment
\* records and hotel bookings it changes at most the status, to paid, with
\* the time of the save; and in every state a booking that is linked to a
\* payment record is not in status saved
C17_WebhookLeavesBookings ==
    [][/\ LinkedNeverSaved
       /\ LinkedNeverSaved'
       /\ Served("squad_webhook")
            => /\ bookings' = bookings
               /\ disbursed' = disbursed
               /\ Len(payments') = Len(payments)
               /\ Len(hotelBookings') = Len(hotelBookings)
               /\ \A i \in 1..Len(payments) : SameOrPaid(payments'[i], payments[i])
               /\ \A i \in 1..Len(hotelBookings) :
                    SameOrPaid(hotelBookings'[i], hotelBookings[i])]_vars

\* the browser's redirect has marked a payment record paid whose booking is
\* in paid_pending_confirmation
C17_Witness ==
    /\ last.op = "squad_webhook" /\ last.method = "GET"
    /\ last.out = "html_lease_success"
    /\ \E p \in LeasePaymentsByRef(last.ref) :
        /\ payments[p].status = "paid"
        /\ \E i \in BookingOfPayment(p) :
            bookings[i].status = "paid_pending_confirmation"

\* the request names the success event: Event charge_successful with
\* transaction_status Success
NamesSuccess(req) ==
    req.event = "charge_successful" /\ req.transaction_status = "Success"

Months(term) ==
    CASE term = "monthly" -> Some(1)
      [] term = "6_months" -> Some(6)
      [] term = "1_year" -> Some(12)
      [] term = "2_years" -> Some(24)
      [] OTHER -> None

\* the payment record the step has added
NewPayment == payments'[Len(payments')]

\* the booking the new payment record is for
BookingsOfNewPayment ==
    {i \in 1..Len(bookings') :
        /\ bookings'[i].user = last'.user
        /\ bookings'[i].listing_type = last'.listing_type
        /\ bookings'[i].listing_id = last'.listing_id
        /\ bookings'[i].status = "paid_pending_confirmation"
        /\ bookings'[i].initial_amount_paid_ngn = Some(NewPayment.amount_paid_ngn)}

\* C8: initiate_lease_payment with payment type full_lease_payment on a
\* landlord or agent listing adds a payment record whose amount is the
\* monthly rent times the months of the listing's lease term (monthly 1,
\* 6_months 6, 1_year 12, 2_years 24; 50000 gives 600000 for 1_year and
\* 300000 for 6_months), kept when the gateway is configured; for any other
\* term it fails with UnsupportedLeaseTerm and changes no table
C8_FullLeaseAmount ==
    [][(/\ Served("initiate_lease_payment")
        /\ last'.payment_type = "full_lease_payment"
        /\ last'.listing_type \in {"landlord_listing", "agent_listing"}
        /\ ListingForCalculation(last'.listing_type, last'.listing_id) # None)
       => LET l == ListingForCalculation(last'.listing_type, last'.listing_id)[1]
              months == Months(l.lease_term_preference)
          IN  IF months = None
              THEN last'.out = "UnsupportedLeaseTerm" /\ tables' = tables
              ELSE /\ Len(payments') = Len(payments) + 1
                   /\ NewPayment.amount_paid_ngn = l.monthly_rent * months[1]
                   /\ NewPayment.payment_type = "full_lease_payment"
                   /\ squadConfigured => ~NewPayment.deleted
                   /\ (l.monthly_rent = 50000 /\ l.lease_term_preference = "1_year")
                        => NewPayment.amount_paid_ngn = 600000
                   /\ (l.monthly_rent = 50000 /\ l.lease_term_preference = "6_months")
                        => NewPayment.amount_paid_ngn = 300000]_vars

\* 50000 a month for a year: a payment record of 600000
C8_Witness ==
    /\ last.op = "initiate_lease_payment" /\ last.out = "ok"
    /\ last.payment_type = "full_lease_payment"
    /\ \E i \in LeasePaymentsByRef(last.ref) :
        /\ payments[i].amount_paid_ngn = 600000
        /\ payments[i].status = "pending"
    /\ PropertyDraft[1].lease_term_preference = "1_year"
    /\ PropertyDraft[1].monthly_rent = 50000

\* the bookings linked to payment record p after the step
LinkedAfter(p) == {i \in 1..Len(bookings') : bookings'[i].lease_payment = Some(p)}

\* C15: an initiate_lease_payment request that is valid, with the gateway
\* configured and accepting the charge, is answered with the checkout url,
\* adds one payment record in status pending and leaves exactly one booking
\* linked to it, in paid_pending_confirmation with the amount and payment
\* type of the record: the user's saved booking of the listing when there is
\* one, and then no booking is added, else one new booking; no other booking
\* changes; for landlord, agent and hotel listings alike
C15_InitiateLinksOneBooking ==
    [][(/\ Served("initiate_lease_payment")
        /\ CalculateAmount(last').err = "ok"
        /\ squadConfigured
        /\ last'.gateway \in {"none", "success"})
       => LET pid == Len(payments) + 1
              saved == BookingsWith(last'.user, last'.listing_type, last'.listing_id,
                                    {"saved"})
          IN  /\ last'.out = "ok"
              /\ Len(payments') = pid
              /\ SubSeq(payments', 1, Len(payments)) = payments
              /\ payments'[pid].status = "pending"
              /\ ~payments'[pid].deleted
              /\ payments'[pid].amount_paid_ngn = CalculateAmount(last').amount
              /\ Cardinality(LinkedAfter(pid)) = 1
              /\ \A i \in LinkedAfter(pid) :
                    /\ bookings'[i].status = "paid_pending_confirmation"
                    /\ bookings'[i].initial_amount_paid_ngn
                            = Some(payments'[pid].amount_paid_ngn)
                    /\ bookings'[i].payment_type = last'.payment_type
                    /\ bookings'[i].user = last'.user
                    /\ bookings'[i].listing_type = last'.listing_type
                    /\ bookings'[i].listing_id = last'.listing_id
              /\ IF saved # {}
                 THEN LinkedAfter(pid) \subseteq saved /\ Len(bookings') = Len(bookings)
                 ELSE /\ Len(bookings') = Len(bookings) + 1
                      /\ LinkedAfter(pid) = {Len(bookings')}
              /\ \A i \in BookingIds \ LinkedAfter(pid) : bookings'[i] = bookings[i]]_vars

\* C16: an initiate_lease_payment request whose charge the gateway refuses,
\* or cannot be reached for, or answers unreadably, is answered with an
\* error and leaves the payment record it has added in status failed and the
\* booking linked to that record in paid_pending_confirmation; no booking is
\* removed, and no step returns a booking to saved
C16_FailedChargeKeepsBooking ==
    [][/\ (/\ Served("initiate_lease_payment")
           /\ last'.gateway \in {"rejected", "network_error", "bad_response"})
          => LET pid == Len(payments) + 1
             IN  /\ last'.out \in {"GatewayRejected", "GatewayUnavailable", "ServerError"}
                 /\ Len(payments') = pid
                 /\ payments'[pid].status = "failed"
                 /\ ~payments'[pid].deleted
                 /\ Cardinality(LinkedAfter(pid)) = 1
                 /\ \A i \in LinkedAfter(pid) :
                        /\ bookings'[i].status = "paid_pending_confirmation"
                        /\ bookings'[i].user = last'.user
       /\ Len(bookings') >= Len(bookings)
       /\ \A i \in BookingIds :
            bookings[i].status # "saved" => bookings'[i].status # "saved"]_vars

\* the gateway could not be reached for a charge: the record is failed and
\* the booking linked to it is in paid_pending_confirmation
C16_Witness ==
    /\ last.op = "initiate_lease_payment" /\ last.gateway = "network_error"
    /\ \E p \in LeasePaymentsByRef(last.ref) :
        /\ payments[p].status = "failed"
        /\ \E i \in BookingOfPayment(p) :
            /\ bookings[i].status = "paid_pending_confirmation"
            /\ bookings[i].updated_at = now

\* the listing exists and is published: its row has the status approved
ListingApproved(lt, lid) ==
    CASE lt = "landlord_listing" ->
            lid \in DOMAIN Property /\ Property[lid].status = "approved"
      [] lt = "agent_listing" ->
            lid \in DOMAIN AgentProperty /\ AgentProperty[lid].status = "approved"
      [] lt = "hotel_listing" ->
            lid \in DOMAIN HotelListing /\ HotelListing[lid].status = "approved"
      [] OTHER -> FALSE

\* C20: save_booking adds a booking only when the listing type and id name
\* a listing that exists and is approved; for a listing type of the three
\* and an id that names no listing, or a listing that is pending, rejected or
\* a draft, it fails with ListingNotFound and changes no table
C20_SaveOnlyPublished ==
    [][Served("save_booking")
       => /\ Len(bookings') > Len(bookings)
                => ListingApproved(last'.listing_type, last'.listing_id)
          /\ (/\ last'.listing_type \in VALID_LISTING_TYPES
              /\ last'.listing_id # 0
              /\ ~ListingApproved(last'.listing_type, last'.listing_id))
                => last'.out = "ListingNotFound" /\ tables' = tables]_vars

\* C9: initiate_lease_payment with payment type hotel_stay on a hotel
\* listing, with a room type of the hotel, a check-out date after the
\* check-in date, the gateway configured and accepting the charge, is
\* accepted: it adds a pending payment record of the nightly rate times the
\* nights and leaves a booking of the user in paid_pending_confirmation; with
\* a check-out date not after the check-in date it fails with
\* InvalidDateRange and changes no table
C9_HotelStayAccepted ==
    [][(/\ Served("initiate_lease_payment")
        /\ last'.payment_type = "hotel_stay"
        /\ last'.listing_type = "hotel_listing"
        /\ last'.listing_id \in DOMAIN HotelListing
        /\ last'.room_type_id \in DOMAIN RoomType
        /\ RoomType[last'.room_type_id].hotel = last'.listing_id
        /\ strptime(last'.check_in_date) > 0 /\ strptime(last'.check_out_date) > 0
        /\ squadConfigured
        /\ last'.gateway \in {"none", "success"})
       => LET nights == strptime(last'.check_out_date) - strptime(last'.check_in_date)
          IN  IF nights <= 0
              THEN last'.out = "InvalidDateRange" /\ tables' = tables
              ELSE /\ last'.out = "ok"
                   /\ Len(payments') = Len(payments) + 1
                   /\ NewPayment.status = "pending"
                   /\ NewPayment.amount_paid_ngn =
                        RoomType[last'.room_type_id].price_per_night * nights
                   /\ BookingsOfNewPayment # {}]_vars

(***************************************************************************)
(* Properties of the rejected requests.                                    *)
(***************************************************************************)
\* the errors of a request that is refused for what it says
RequestErrors ==
    {"ValidationError", "InvalidListingType", "InvalidPaymentType",
     "UnsupportedPaymentType", "UnsupportedLeaseTerm", "InvalidDateFormat",
     "InvalidDateRange", "ListingNotFound", "RoomNotFound"}

\* the save_booking request lacks a field, or names a listing type outside
\* the three or a listing that has no published row
SaveRequestInvalid(req) ==
    \/ req.listing_type = "" \/ req.listing_id = 0
    \/ req.listing_type \notin VALID_LISTING_TYPES
    \/ ~PublishedExists(req.listing_type, req.listing_id)

\* the initiate_lease_payment request lacks a field, names a listing type or
\* payment type outside the accepted ones, a listing that has neither a
\* published row nor a draft, a full lease payment for a lease term outside
\* the four, or, for a hotel, lacks a date or the room type, has a date that
\* is not YYYY-MM-DD, a check-out date not after the check-in date, or a room
\* type that is not of the hotel
InitiateRequestInvalid(req) ==
    LET lt == req.listing_type
        lid == req.listing_id
        pt == req.payment_type
        listing == ListingForCalculation(lt, lid)
    IN  \/ lt = "" \/ lid = 0 \/ pt = ""
        \/ lt \notin VALID_LISTING_TYPES
        \/ pt \notin VALID_PAYMENT_TYPES
        \/ listing = None
        \/ /\ pt = "full_lease_payment"
           /\ lt \in {"landlord_listing", "agent_listing"}
           /\ listing[1].lease_term_preference
                \notin {"monthly", "6_months", "1_year", "2_years"}
        \/ /\ lt = "hotel_listing"
           /\ \/ req.check_in_date = "" \/ req.check_out_date = ""
              \/ req.room_type_id = 0
              \/ strptime(req.check_in_date) < 0 \/ strptime(req.check_out_date) < 0
              \/ strptime(req.check_out_date) <= strptime(req.check_in_date)
              \/ req.room_type_id \notin DOMAIN RoomType
              \/ RoomType[req.room_type_id].hotel # lid

\* C21: a save_booking or initiate_lease_payment request that lacks a field,
\* names an unknown listing type, payment type, listing or room, an invalid
\* date range or an unsupported lease term is refused and changes no row of
\* any table; and whenever such a request is answered with one of the errors
\* for these cases, no row of any table has changed
C21_RejectedRequestChangesNothing ==
    [][/\ (Served("save_booking") /\ SaveRequestInvalid(last'))
            => last'.out # "ok" /\ tables' = tables /\ disbursed' = disbursed
       /\ (Served("initiate_lease_payment") /\ InitiateRequestInvalid(last'))
            => last'.out # "ok" /\ tables' = tables /\ disbursed' = disbursed
       /\ (/\ last'.op \in {"save_booking", "initiate_lease_payment"}
           /\ last'.out \in RequestErrors)
            => tables' = tables /\ disbursed' = disbursed]_vars

\* a payment request for a hotel stay that ends before it starts was refused
\* while the user's saved booking of the hotel is still saved and unpaid
C21_Witness ==
    /\ last.op = "initiate_lease_payment" /\ last.out = "InvalidDateRange"
    /\ payments = <<>>
    /\ \E i \in BookingIds :
        /\ bookings[i].user = last.user
        /\ bookings[i].listing_type = last.listing_type
        /\ bookings[i].listing_id = last.listing_id
        /\ bookings[i].status = "saved"
        /\ bookings[i].lease_payment = None

(***************************************************************************)
(* Properties of requests served in parallel.                              *)
(***************************************************************************)
\* C22: however release_funds and confirm_booking requests for a booking
\* interleave, the gateway makes at most one transfer for the booking
C22_DisburseAtMostOnce ==
    \A bid \in DOMAIN disbursed : disbursed[bid] <= 1

\* every payment record that exists is linked to a booking
PaymentsLinked ==
    \A p \in 1..Len(payments) : ~payments[p].deleted => BookingOfPayment(p) # {}

\* C23: however two save_booking requests of a user for one listing
\* interleave, the user has at most one booking of the listing in status
\* saved, and so a payment initiated later leaves no payment record without
\* a booking linked to it
C23_OneSavedBookingUnderRace ==
    /\ \A i \in BookingIds : \A j \in BookingIds :
            (/\ i # j
             /\ bookings[i].user = bookings[j].user
             /\ bookings[i].listing_type = bookings[j].listing_type
             /\ bookings[i].listing_id = bookings[j].listing_id
             /\ bookings[i].status = "saved")
            => bookings[j].status # "saved"
    /\ PaymentsLinked

\* C24: however a confirm_booking request and a cancel_booking or
\* request_refund request for a booking interleave, only one of them
\* succeeds: a cancellation or refund request is not answered with success
\* for a booking that a confirmation has made confirmed, nor a confirmation
\* for a booking that a cancellation has made cancelled; and the stored
\* booking is never confirmed with refund_status requested
C24_OneWriterWins ==
    [][\A bid \in BookingIds :
        /\ (/\ last'.op \in {"cancel_booking", "request_refund"}
             /\ last'.booking_id = bid /\ last'.out = "ok")
            => /\ bookings[bid].status # "confirmed"
               /\ bookings'[bid].status = "cancelled"
        /\ (Served("confirm_booking") /\ last'.booking_id = bid /\ last'.out = "ok")
            => /\ bookings[bid].status # "cancelled"
               /\ bookings'[bid].status = "confirmed"
        /\ bookings'[bid].status = "confirmed"
            => bookings'[bid].refund_status # "requested"]_vars

(***************************************************************************)
(* Properties of the status of a booking.                                  *)
(***************************************************************************)
\* the changes of status the lifecycle allows
StatusEdges ==
    {<<"saved", "paid_pending_confirmation">>,
     <<"paid_pending_confirmation", "confirmed">>,
     <<"saved", "cancelled">>,
     <<"paid_pending_confirmation", "cancelled">>,
     <<"confirmed", "released">>,
     <<"cancelled", "refunded">>}

\* C25: in every step the status of every booking stays as it is or changes
\* along saved -> paid_pending_confirmation, paid_pending_confirmation ->
\* confirmed, saved or paid_pending_confirmation -> cancelled, confirmed ->
\* released, cancelled -> refunded; no booking is removed, and a new booking
\* starts as saved or paid_pending_confirmation
C25_StatusFollowsEdges ==
    [][/\ Len(bookings') >= Len(bookings)
       /\ \A i \in BookingIds :
            \/ bookings'[i].status = bookings[i].status
            \/ <<bookings[i].status, bookings'[i].status>> \in StatusEdges
       /\ \A i \in 1..Len(bookings') :
            i \notin BookingIds => bookings'[i].status \in ActiveStatuses]_vars

\* a booking that was paid has just been cancelled, and another booking of
\* the user is confirmed
C25_Witness ==
    /\ last.op = "cancel_booking" /\ last.out = "ok"
    /\ last.booking_id \in BookingIds
    /\ bookings[last.booking_id].status = "cancelled"
    /\ bookings[last.booking_id].lease_payment # None
    /\ \E j \in BookingIds : bookings[j].status = "confirmed"

\* the booking is in paid_pending_confirmation and its confirmation window
\* has elapsed at time t
Expired(b, t) ==
    b.status = "paid_pending_confirmation" /\ t - b.updated_at > ConfirmationWindow

\* C26: a booking in paid_pending_confirmation whose 48 hours have elapsed
\* stays so at every step: its status, refund_status, release_status,
\* funds_released and updated_at do not change, and a confirm_booking,
\* cancel_booking or request_refund request of its user for it is refused
\* with the error of the expired window
C26_ExpiredStaysPending ==
    [][\A bid \in BookingIds :
        Expired(bookings[bid], now)
        => /\ Expired(bookings'[bid], now')
           /\ bookings'[bid].status = bookings[bid].status
           /\ bookings'[bid].refund_status = bookings[bid].refund_status
           /\ bookings'[bid].release_status = bookings[bid].release_status
           /\ bookings'[bid].funds_released = bookings[bid].funds_released
           /\ bookings'[bid].updated_at = bookings[bid].updated_at
           /\ (last'.booking_id = bid /\ last'.user = bookings[bid].user)
                => /\ Served("confirm_booking") => last'.out = "ConfirmationWindowExpired"
                   /\ Served("cancel_booking") => last'.out = "CancellationWindowExpired"
                   /\ Served("request_refund") => last'.out = "RefundWindowExpired"]_vars

\* the refund of a booking whose confirmation window has elapsed was refused,
\* and the booking is still in paid_pending_confirmation
C26_Witness ==
    /\ last.op = "request_refund" /\ last.out = "RefundWindowExpired"
    /\ last.booking_id \in BookingIds
    /\ Expired(bookings[last.booking_id], now)
    /\ bookings[last.booking_id].refund_status = "none"
    /\ bookings[last.booking_id].release_status = "pending"

(***************************************************************************)
(* Properties of the payment of a booking.                                 *)
(***************************************************************************)
\* the payment record linked to booking b is in status paid
PaymentPaid(b) ==
    /\ b.lease_payment # None
    /\ ~payments[b.lease_payment[1]].deleted
    /\ payments[b.lease_payment[1]].status = "paid"

\* C27: the gateway makes a transfer for a booking, in confirm_booking or
\* release_funds, only if the payment record linked to the booking is in
\* status paid, and funds_released is set only for such a booking
C27_DisburseOnlyWhenPaid ==
    [][\A bid \in BookingIds :
        (\/ disbursed'[bid] # disbursed[bid]
         \/ bookings'[bid].funds_released /\ ~bookings[bid].funds_released)
        => PaymentPaid(bookings[bid])]_vars

\* booking b is linked to an existing payment record of the same user,
\* listing and amount
PaymentMatches(b) ==
    /\ b.lease_payment # None
    /\ LET p == payments[b.lease_payment[1]]
       IN  /\ ~p.deleted
           /\ p.tenant = b.user
           /\ p.listing_type = b.listing_type
           /\ p.listing_id = b.listing_id
           /\ b.initial_amount_paid_ngn = Some(p.amount_paid_ngn)

\* C28: every booking in status paid_pending_confirmation or confirmed is
\* linked to an existing payment record with the same user, listing and
\* amount, also after an initiate_lease_payment that stopped because the
\* gateway keys are not configured
C28_PaidBookingHasPayment ==
    \A i \in BookingIds :
        bookings[i].status \in {"paid_pending_confirmation", "confirmed"}
        => PaymentMatches(bookings[i])

(***************************************************************************)
(* Properties of the two windows together.                                 *)
(***************************************************************************)
\* C29: a booking in status paid_pending_confirmation was last saved no
\* earlier than it was created, so while at most 24 hours have passed since
\* its creation at most 48 hours have passed since its last save, and
\* request_refund never answers AutomaticProcessExpected
C29_RefundNeverAwaitsAutomaticProcess ==
    /\ \A i \in BookingIds :
         bookings[i].status = "paid_pending_confirmation"
         => /\ bookings[i].created_at <= bookings[i].updated_at
            /\ now - bookings[i].created_at <= 24 * 3600
                 => now - bookings[i].updated_at <= 48 * 3600
    /\ last.out # "AutomaticProcessExpected"

\* a refund was requested for a paid booking more than 48 hours after its
\* last save, and was answered RefundWindowExpired
C29_Witness ==
    /\ last.op = "request_refund" /\ last.out = "RefundWindowExpired"
    /\ last.booking_id \in BookingIds
    /\ bookings[last.booking_id].status = "paid_pending_confirmation"
    /\ bookings[last.booking_id].lease_payment # None
    /\ now - bookings[last.booking_id].updated_at > 48 * 3600

(***************************************************************************)
(* Properties of the refund fields.                                        *)
(***************************************************************************)
\* C30: with the requests served one at a time, a booking has refund_status
\* requested exactly when its status is cancelled, refund_processed_at is
\* set exactly for those bookings, refund_status is never processed, and a
\* cancelled booking never has funds_released set
C30_RefundFieldsFollowStatus ==
    \A i \in BookingIds :
        LET b == bookings[i]
        IN  /\ b.refund_status = "requested" <=> b.status = "cancelled"
            /\ b.refund_processed_at # None <=> b.status = "cancelled"
            /\ b.refund_status # "processed"
            /\ b.status = "cancelled" => ~b.funds_released

\* one booking was cancelled with the refund requested and stamped while
\* another booking has had its funds released
C30_Witness ==
    \E i, j \in BookingIds :
        /\ bookings[i].status = "cancelled"
        /\ bookings[i].refund_status = "requested"
        /\ bookings[i].refund_processed_at # None
        /\ bookings[j].status = "confirmed"
        /\ bookings[j].funds_released
        /\ bookings[j].refund_status = "none"

====
